---- MODULE Spec2Model ----
(***************************************************************************)
(* Day 10, part 2 (src/day10/src/main.rs): the minimum number of button    *)
(* presses that drives every joltage counter to its target.  After it,     *)
(* day 10 part 1 (the lights), the dial of day 1, the paper rolls of day 4 *)
(* and the UnionFind of day 8, each a specification of its own over its    *)
(* own variables.                                                          *)
(*                                                                         *)
(* The source computes in f64 (nalgebra).  The model computes the same     *)
(* quantities in exact rational arithmetic, a rational being a pair        *)
(* <<numerator, denominator>> in lowest terms with a positive denominator. *)
(* The source's tolerances (1e-6, 1e-9) are kept as the rationals          *)
(* 1/TolInt and 1/TolSign, so a value is accepted or rejected by the same  *)
(* comparisons as in the source; what the model leaves out is the f64      *)
(* round-off of the solves themselves, which for the small 0/1 systems     *)
(* modelled here is many orders of magnitude below both tolerances.        *)
(***************************************************************************)
EXTENDS Integers, Sequences, FiniteSets, TLC

\* seen, visited and evals are history variables: the totals accepted so
\* far, the subsets evaluated so far and the number of evaluations.  Of
\* the other programs' variables rotation, initial_grid, unions and
\* returned are history variables: the last rotation with what it counted,
\* the grid as it was read, the pairs given to union so far and the last
\* call of the UnionFind with what it returned.
VARIABLES buttons, joltages, pc, size, idx, best, last, seen, visited, evals,
          result,
          light_target, verdict,
          position, zero_count, rotation,
          grid, total_removed, initial_grid,
          parent, rank, unions, returned

\* The state of the joltage search (day 10, part 2).
searchVars == <<size, idx, best, last, seen, visited, evals>>

\* The state of the programs other than the joltage search: the light
\* target of day 10 part 1, the verdicts of the two exactness checks, the
\* dial of day 1, the grid of day 4, the UnionFind of day 8.
lightVars == <<light_target, verdict>>
dialVars == <<position, zero_count, rotation>>
gridVars == <<grid, total_removed, initial_grid>>
unionVars == <<parent, rank, unions, returned>>
otherPrograms == <<lightVars, dialVars, gridVars, unionVars>>

vars == <<buttons, joltages, pc, result, searchVars, otherPrograms>>

\* A program that is not running holds nothing.
IdleLights == light_target = <<>> /\ verdict = <<>>
IdleDial == position = 0 /\ zero_count = 0 /\ rotation = <<>>
IdleGrid == grid = <<>> /\ total_removed = 0 /\ initial_grid = <<>>
IdleUnionFind == parent = <<>> /\ rank = <<>> /\ unions = {} /\ returned = <<>>
NoOtherProgram == IdleLights /\ IdleDial /\ IdleGrid /\ IdleUnionFind

\* Bounds of the model: machines with at most MaxButtons buttons and
\* MaxCounters counters, every target joltage in 0..MaxJolt.
MaxButtons == 3
MaxCounters == 2
MaxJolt == 7

\* i32::MAX, the placeholder of "no candidate yet".
I32Max == 2147483647
\* 1e-6 (integrality) and 1e-9 (sign/zero) as denominators, and the cap on
\* the enumerated free variable of the d = 2 case.
TolInt == 1000000
TolSign == 1000000000
FvCap == 100

\* Option<T>: None is the empty tuple, Some(v) the one-element tuple.
None == <<>>
Some(v) == <<v>>
Get(o) == o[1]

----------------------------------------------------------------------------
(* Exact rationals.                                                        *)

Abs(n) == IF n < 0 THEN -n ELSE n

RECURSIVE GCD(_, _)
GCD(a, b) == IF b = 0 THEN a ELSE GCD(b, a % b)

Rat(n, d) ==
  LET g == GCD(Abs(n), Abs(d))
      s == IF d < 0 THEN -1 ELSE 1
  IN  <<(s * n) \div g, (s * d) \div g>>

FromInt(i) == <<i, 1>>
RAdd(x, y) == Rat(x[1] * y[2] + y[1] * x[2], x[2] * y[2])
RSub(x, y) == Rat(x[1] * y[2] - y[1] * x[2], x[2] * y[2])
RMul(x, y) == Rat(x[1] * y[1], x[2] * y[2])
RDiv(x, y) == Rat(x[1] * y[2], x[2] * y[1])
RLt(x, y) == x[1] * y[2] < y[1] * x[2]
RMin(x, y) == IF RLt(y, x) THEN y ELSE x
RMax(x, y) == IF RLt(x, y) THEN y ELSE x
RAbs(x) == <<Abs(x[1]), x[2]>>
\* f64::floor and f64::ceil followed by `as i32`.
Floor(x) == x[1] \div x[2]
Ceil(x) == -((-x[1]) \div x[2])
\* f64::round: to the nearest integer, halves away from zero.
Round(x) ==
  IF x[1] >= 0 THEN (2 * x[1] + x[2]) \div (2 * x[2])
  ELSE -((2 * (-x[1]) + x[2]) \div (2 * x[2]))
\* x > 1/e and x < -1/e for an integer e > 0, without forming n * e.
GtTol(x, e) == x[1] > x[2] \div e
LtNegTol(x, e) == -x[1] > x[2] \div e

RECURSIVE SumSeq(_)
SumSeq(s) == IF s = <<>> THEN 0 ELSE Head(s) + SumSeq(Tail(s))

RECURSIVE RSumSeq(_)
RSumSeq(s) == IF s = <<>> THEN FromInt(0) ELSE RAdd(Head(s), RSumSeq(Tail(s)))

RECURSIVE MaxSeq(_)
MaxSeq(s) ==
  IF Len(s) = 1 THEN s[1]
  ELSE LET r == MaxSeq(Tail(s)) IN IF s[1] > r THEN s[1] ELSE r

Min2(a, b) == IF a < b THEN a ELSE b
Max2(a, b) == IF a > b THEN a ELSE b

\* Evaluation helpers, the identity on values.  TLC keeps a function
\* expression [i \in S |-> e] unevaluated and re-evaluates e at every
\* application; Vec and Mat turn a sequence and a matrix into explicit
\* tuples, and The({e(v) : v \in {x}}) is e(x) with x evaluated once.
Vec(f) == f \o <<>>
Mat(f) == Vec([r \in 1..Len(f) |-> Vec(f[r])])
The(S) == CHOOSE y \in S : TRUE

----------------------------------------------------------------------------
(* Dense linear algebra on integer matrices (sequences of rows).           *)

\* M without row 1 and without column j.
Minor(M, j) ==
  Mat([r \in 1..(Len(M) - 1) |->
         [c \in 1..(Len(M) - 1) |-> IF c < j THEN M[r + 1][c] ELSE M[r + 1][c + 1]]])

\* The determinant, by expansion along the first row.
RECURSIVE Det(_)
Det(M) ==
  The({IF Len(m) = 0 THEN 1
       ELSE IF Len(m) = 1 THEN m[1][1]
       ELSE SumSeq(Vec([j \in 1..Len(m) |->
              (IF j % 2 = 1 THEN 1 ELSE -1) * m[1][j] * Det(Minor(m, j))]))
       : m \in {M}})

\* M with column i replaced by the vector v.
ReplaceCol(M, i, v) ==
  Mat([r \in 1..Len(M) |-> [c \in 1..Len(M) |-> IF c = i THEN v[r] ELSE M[r][c]]])

\* basic_a.lu().solve(&rhs): None when the square matrix is singular, else
\* the unique solution of M x = rhs (computed here by Cramer's rule).
LuSolve(M, rhs) ==
  The({IF d = 0 THEN None
       ELSE Some(Vec([i \in 1..Len(m) |-> Rat(Det(ReplaceCol(m, i, v)), d)]))
       : m \in {M}, v \in {rhs}, d \in {Det(M)}})

Dot(u, v) == SumSeq(Vec([i \in 1..Len(u) |-> u[i] * v[i]]))

Column(A, j) == Vec([i \in 1..Len(A) |-> A[i][j]])

\* Gram matrix C^T C of the columns of A listed in J.
Gram(A, J) ==
  The({Mat([a \in 1..Len(J) |-> [c \in 1..Len(J) |-> Dot(cols[a], cols[c])]])
       : cols \in {Vec([a \in 1..Len(J) |-> Column(A, J[a])])}})

\* The first maximal linearly independent columns of the m x n matrix A.
RECURSIVE IndepCols(_, _, _, _)
IndepCols(A, n, j, J) ==
  IF j > n THEN J
  ELSE IF Det(Gram(A, Append(J, j))) # 0 THEN IndepCols(A, n, j + 1, Append(J, j))
  ELSE IndepCols(A, n, j + 1, J)

\* The pseudo-inverse solution for a rank-deficient A = C F, C the columns
\* J of A, G = C^T C: x = F^T (F F^T)^-1 G^-1 C^T b, with F and z scaled by
\* det(G) to stay in the integers.
PinvDeficient(A, n, b, J, G) ==
  LET r == Len(J)
      Ctv(v) == Vec([a \in 1..r |-> Dot(Column(A, J[a]), v)])
  IN  The({The({The({
        Vec([j \in 1..n |->
               Rat(SumSeq(Vec([a \in 1..r |-> F[a][j] * u[a]])), Det(H))])
        : u \in {Vec([a \in 1..r |-> Det(ReplaceCol(H, a, z))])}})
        : H \in {Mat([a \in 1..r |-> [c \in 1..r |-> Dot(F[a], F[c])]])}})
        : z \in {Vec([a \in 1..r |-> Det(ReplaceCol(G, a, Ctv(b)))])},
          F \in {Mat([a \in 1..r |-> [j \in 1..n |->
                   Det(ReplaceCol(G, a, Ctv(Column(A, j))))]])}})

\* sub_a.svd(true, true).solve(&b_vec, 1e-10): with U and V^T computed the
\* call never fails; it returns V diag(1/s_i for s_i > eps, else 0) U^T b,
\* the pseudo-inverse applied to b: the least-squares solution of A x = b
\* of minimum norm.  A is m x n (n >= 1 columns), b has m entries.
SvdSolve(A, n, b) ==
  The({IF Len(J) = 0 THEN Vec([j \in 1..n |-> FromInt(0)])
       ELSE IF Len(J) = n
         THEN Get(LuSolve(G, Vec([a \in 1..n |-> Dot(Column(A, a), b)])))
       ELSE PinvDeficient(mA, n, b, J, G)
       : mA \in {A},
         J \in {IndepCols(A, n, 1, <<>>)},
         G \in {Gram(A, IndepCols(A, n, 1, <<>>))}})

----------------------------------------------------------------------------
(* Part 2 of src/day10/src/main.rs.                                        *)

\* combinations(n, k): every k-combination of 0..n-1, by the recursion of
\* generate(start, idx): position idx takes i = start..n-(k-idx) in turn.
\* Faulty variant of generate: the recursion restarts at i, not at i + 1.
RECURSIVE generate_repeating(_, _, _, _, _)
generate_repeating(start, i, n, k, combo) ==
  IF i = k THEN <<combo>>
  ELSE LET upper == n - (k - i)
           from[v \in start..(upper + 1)] ==
             IF v > upper THEN <<>>
             ELSE generate_repeating(v, i + 1, n, k, Append(combo, v))
                  \o from[v + 1]
       IN  from[start]

RECURSIVE generate(_, _, _, _, _)
generate(start, i, n, k, combo) ==
  IF i = k THEN <<combo>>
  ELSE LET upper == n - (k - i)
           from[v \in start..(upper + 1)] ==
             IF v > upper THEN <<>>
             ELSE generate(v + 1, i + 1, n, k, Append(combo, v)) \o from[v + 1]
       IN  from[start]

combinations(n, k) == IF k > n THEN <<>> ELSE generate(0, 0, n, k, <<>>)

\* Faulty variant of is_nonneg_integer: the two sign tests left out.
is_nonneg_integer_signless(x) ==
  LET rounded == Round(x)
  IN  IF GtTol(RAbs(RSub(x, FromInt(rounded))), TolInt) THEN None
      ELSE Some(rounded)

\* Faulty variant of is_nonneg_integer: rounded <= 0 rejected, not rounded < 0.
is_nonneg_integer_positive(x) ==
  IF LtNegTol(x, TolInt) THEN None
  ELSE LET rounded == Round(x)
       IN  IF rounded <= 0 THEN None
           ELSE IF GtTol(RAbs(RSub(x, FromInt(rounded))), TolInt) THEN None
           ELSE Some(rounded)

\* is_nonneg_integer(x): Some(rounded) or None.
is_nonneg_integer(x) ==
  IF LtNegTol(x, TolInt) THEN None
  ELSE LET rounded == Round(x)
       IN  IF rounded < 0 THEN None
           ELSE IF GtTol(RAbs(RSub(x, FromInt(rounded))), TolInt) THEN None
           ELSE Some(rounded)

\* Faulty variant of verify_solution: the comparison sum != jolt turned into
\* sum == jolt, so that a vector reaching a target is refused.
verify_solution_inverted(jolts, btns, subset, presses) ==
  \A counter \in 0..(Len(jolts) - 1) :
    SumSeq(Vec([p \in 1..Len(subset) |->
                  IF counter \in btns[subset[p] + 1] THEN presses[p] ELSE 0]))
      # jolts[counter + 1]

\* verify_solution(joltages, buttons, subset, presses): subset holds 0-based
\* button indices, a button is the set of the counter indices it lists.
verify_solution(jolts, btns, subset, presses) ==
  \A counter \in 0..(Len(jolts) - 1) :
    SumSeq(Vec([p \in 1..Len(subset) |->
                  IF counter \in btns[subset[p] + 1] THEN presses[p] ELSE 0]))
      = jolts[counter + 1]

\* The loop of solve_one_free_var that narrows [t_min, t_max] by
\* x_basic(t) = x0 - coef * t >= 0, from row i on; None is its early return.
RECURSIVE FreeRange(_, _, _, _, _)
FreeRange(x0, coef, i, t_min, t_max) ==
  IF i > Len(x0) THEN Some(<<t_min, t_max>>)
  ELSE LET c == coef[i]
           x == x0[i]
       IN  IF GtTol(c, TolSign)
             THEN FreeRange(x0, coef, i + 1, t_min, RMin(t_max, RDiv(x, c)))
           ELSE IF LtNegTol(c, TolSign)
             THEN FreeRange(x0, coef, i + 1, RMax(t_min, RDiv(x, c)), t_max)
           ELSE IF LtNegTol(x, TolSign) THEN None
           ELSE FreeRange(x0, coef, i + 1, t_min, t_max)

\* Faulty variant of OptT: the two signs of the slope exchanged.
OptTSwapped(slope, t_min, t_max) ==
  LET opt_t == IF GtTol(slope, TolSign) THEN Floor(t_max)
               ELSE IF LtNegTol(slope, TolSign) THEN Ceil(t_min)
               ELSE Ceil(t_min)
  IN  Min2(Max2(opt_t, Ceil(t_min)), Floor(t_max))

\* The choice of the free variable's value: by the sign of the slope, then
\* clamped into [ceil(t_min), floor(t_max)].
OptT(slope, t_min, t_max) ==
  LET opt_t == IF GtTol(slope, TolSign) THEN Ceil(t_min)
               ELSE IF LtNegTol(slope, TolSign) THEN Floor(t_max)
               ELSE Ceil(t_min)
  IN  Min2(Max2(opt_t, Ceil(t_min)), Floor(t_max))

\* solve_one_free_var(full_a, b, subset, free_idx, max_val): None, or the
\* record of (total, solution).  free_idx is a 0-based position of subset.
solve_one_free_var(full_a, b, subset, free_idx, max_val) ==
  LET num_counters == Len(b)
      basic_idx == SelectSeq([i \in 1..Len(subset) |-> i - 1],
                             LAMBDA i : i # free_idx)
      basic_a == Mat([i \in 1..num_counters |-> [j \in 1..num_counters |->
                        full_a[i][subset[basic_idx[j] + 1] + 1]]])
      lu_x0 == LuSolve(basic_a, b)
      free_col == Vec([i \in 1..num_counters |->
                         full_a[i][subset[free_idx + 1] + 1]])
      lu_coef == LuSolve(basic_a, free_col)
  IN  IF lu_x0 = None \/ lu_coef = None THEN None
      ELSE
        LET x0 == Get(lu_x0)
            coef == Get(lu_coef)
            range == FreeRange(x0, coef, 1, FromInt(0), FromInt(max_val))
        IN  IF range = None THEN None
            ELSE IF GtTol(RSub(Get(range)[1], Get(range)[2]), TolSign) THEN None
            ELSE
              LET slope == RSub(FromInt(1), RSumSeq(coef))
                  opt_t == OptT(slope, Get(range)[1], Get(range)[2])
                  vals == Vec([pos \in 1..Len(basic_idx) |->
                                 is_nonneg_integer(
                                   RSub(x0[pos], RMul(coef[pos], FromInt(opt_t))))])
                  ints == Vec([pos \in 1..Len(basic_idx) |-> Get(vals[pos])])
              IN  IF opt_t < 0 THEN None
                  ELSE IF \E pos \in 1..Len(basic_idx) : vals[pos] = None THEN None
                  ELSE Some([total |-> opt_t + SumSeq(ints),
                             solution |->
                               Vec([q \in 1..Len(subset) |->
                                      IF q - 1 = free_idx THEN opt_t
                                      ELSE ints[IF q - 1 < free_idx THEN q ELSE q - 1]])])

\* The positions the num_free = 1 loop takes as free: 0..subset_size - 1.
FreeChoices(subset_size) == 0..(subset_size - 1)

\* The candidates that solve_with_free_vars accepts (passes to best.min)
\* when num_free = 1: one trial per free column.
FreeCandidates1(full_a, b, subset, max_val, jolts, btns) ==
  LET trial == [free_idx \in FreeChoices(Len(subset)) |->
                  solve_one_free_var(full_a, b, subset, free_idx, max_val)]
  IN  {[total |-> Get(trial[f]).total, presses |-> Get(trial[f]).solution] :
         f \in {g \in DOMAIN trial :
                  /\ trial[g] # None
                  /\ verify_solution(jolts, btns, subset, Get(trial[g]).solution)}}

\* Faulty variant of Trial2: the column of the first free variable is
\* subtracted from b in place, so the adjustments of the earlier trial
\* values 1..fv1-1 are still in b when the trial of fv1 is made.
Trial2Carried(full_a, b, subset, free_idx1, free_idx2, fv1, max_val) ==
  LET subset_size == Len(subset)
      sub_subset == Vec([q \in 1..(subset_size - 1) |->
                           subset[IF q - 1 < free_idx1 THEN q ELSE q + 1]])
      carried == (fv1 * (fv1 + 1)) \div 2
      b_adj == Vec([i \in 1..Len(b) |->
                      b[i] - full_a[i][subset[free_idx1 + 1] + 1] * carried])
      rel_free_idx == free_idx2 - 1
      sub == solve_one_free_var(full_a, b_adj, sub_subset, rel_free_idx, max_val)
  IN  IF sub = None THEN None
      ELSE Some([total |-> Get(sub).total + fv1,
                 solution |->
                   Vec([q \in 1..subset_size |->
                          IF q - 1 = free_idx1 THEN fv1
                          ELSE Get(sub).solution[IF q - 1 < free_idx1 THEN q
                                                 ELSE q - 1]])])

\* One trial of the num_free = 2 loop: positions free_idx1 < free_idx2 of
\* the subset and the value fv1 of the first free variable.  None, or the
\* record of (sub_total + fv1, full_solution).
Trial2(full_a, b, subset, free_idx1, free_idx2, fv1, max_val) ==
  LET subset_size == Len(subset)
      sub_subset == Vec([q \in 1..(subset_size - 1) |->
                           subset[IF q - 1 < free_idx1 THEN q ELSE q + 1]])
      b_adj == Vec([i \in 1..Len(b) |->
                      b[i] - full_a[i][subset[free_idx1 + 1] + 1] * fv1])
      rel_free_idx == free_idx2 - 1
      sub == solve_one_free_var(full_a, b_adj, sub_subset, rel_free_idx, max_val)
  IN  IF sub = None THEN None
      ELSE Some([total |-> Get(sub).total + fv1,
                 solution |->
                   Vec([q \in 1..subset_size |->
                          IF q - 1 = free_idx1 THEN fv1
                          ELSE Get(sub).solution[IF q - 1 < free_idx1 THEN q
                                                 ELSE q - 1]])])

\* Faulty variant of FreeCandidates2: fv1 runs over 0..=max_val, the cap of
\* 100 left out.
FreeCandidates2Uncapped(full_a, b, subset, max_val, jolts, btns) ==
  LET n == Len(subset)
      trials == {t \in (0..(n - 1)) \X (0..(n - 1)) \X (0..max_val) : t[1] < t[2]}
      run == [t \in trials |->
                Trial2(full_a, b, subset, t[1], t[2], t[3], max_val)]
  IN  {[total |-> Get(run[t]).total, presses |-> Get(run[t]).solution] :
         t \in {u \in trials :
                  /\ run[u] # None
                  /\ verify_solution(jolts, btns, subset, Get(run[u]).solution)}}

\* The trials (free_idx1, free_idx2, fv1) of the num_free = 2 loops.
Trials2(subset_size, max_val) ==
  LET cap == Min2(max_val, FvCap)
  IN  {t \in (0..(subset_size - 1)) \X (0..(subset_size - 1)) \X (0..cap) :
         t[1] < t[2]}

\* The candidates that solve_with_free_vars accepts when num_free = 2.
FreeCandidates2(full_a, b, subset, max_val, jolts, btns) ==
  LET n == Len(subset)
      trials == Trials2(n, max_val)
      run == [t \in trials |->
                Trial2(full_a, b, subset, t[1], t[2], t[3], max_val)]
  IN  {[total |-> Get(run[t]).total, presses |-> Get(run[t]).solution] :
         t \in {u \in trials :
                  /\ run[u] # None
                  /\ verify_solution(jolts, btns, subset, Get(run[u]).solution)}}

MinSet(S) == CHOOSE x \in S : \A y \in S : x <= y

\* What solve_with_free_vars accepts for the given num_free.
FreeCandidates(full_a, b, subset, num_free, max_val, jolts, btns) ==
  IF Len(subset) - num_free # Len(b) THEN {}
  ELSE IF num_free = 1 THEN FreeCandidates1(full_a, b, subset, max_val, jolts, btns)
  ELSE IF num_free = 2 THEN FreeCandidates2(full_a, b, subset, max_val, jolts, btns)
  ELSE {}

\* The fold best = best.min(total) from i32::MAX and the final Option.
BestOf(acc) == IF acc = {} THEN None ELSE Some(MinSet({a.total : a \in acc}))

\* solve_with_free_vars(full_a, b, subset, num_free, max_val, joltages, buttons).
solve_with_free_vars(full_a, b, subset, num_free, max_val, jolts, btns) ==
  BestOf(FreeCandidates(full_a, b, subset, num_free, max_val, jolts, btns))

\* Faulty variant of DirectValid: the double-check stops after counter 0.
DirectValidFirstRow(full_a, jolts, subset, solution) ==
  \A r \in 1..Min2(1, Len(jolts)) :
    SumSeq(Vec([p \in 1..Len(subset) |->
                  IF 2 * full_a[r][subset[p] + 1] > 1 THEN solution[p] ELSE 0]))
      = jolts[r]

\* Faulty variant of DirectValid: the double-check left out.
DirectValidSkipped(full_a, jolts, subset, solution) == TRUE

\* The inline double-check of the direct branch: row[btn_idx] > 0.5 on the
\* incidence matrix.
DirectValid(full_a, jolts, subset, solution) ==
  \A r \in 1..Min2(Len(full_a), Len(jolts)) :
    SumSeq(Vec([p \in 1..Len(subset) |->
                  IF 2 * full_a[r][subset[p] + 1] > 1 THEN solution[p] ELSE 0]))
      = jolts[r]

\* The direct branch (size <= num_counters): what it accepts, as a set of
\* at most one (total, presses).
DirectCandidates(full_a, jolts, subset) ==
  LET num_counters == Len(jolts)
      sz == Len(subset)
      sub_a == Mat([i \in 1..num_counters |->
                      [j \in 1..sz |-> full_a[i][subset[j] + 1]]])
      x == SvdSolve(sub_a, sz, jolts)
      checked == Vec([j \in 1..sz |-> is_nonneg_integer(x[j])])
      solution == Vec([j \in 1..sz |-> Get(checked[j])])
  IN  IF \E j \in 1..sz : checked[j] = None THEN {}
      ELSE IF ~DirectValid(full_a, jolts, subset, solution) THEN {}
      ELSE {[total |-> SumSeq(solution), presses |-> solution]}

\* Faulty variant of BuildFullA: the wiring indices taken as 1-based.
BuildFullAShifted(btns, num_counters) ==
  Mat([counter \in 1..num_counters |->
         [btn_idx \in 1..Len(btns) |->
            IF counter \in btns[btn_idx] THEN 1 ELSE 0]])

\* The incidence matrix: full_a[counter][button] = 1 iff the button lists
\* the counter (rows and columns 1-based here, indices 0-based).
BuildFullA(btns, num_counters) ==
  Mat([counter \in 1..num_counters |->
         [btn_idx \in 1..Len(btns) |->
            IF (counter - 1) \in btns[btn_idx] THEN 1 ELSE 0]])

\* Faulty variant of SubsetCandidates: size < num_counters for the direct
\* branch, not size <= num_counters.
SubsetCandidatesStrict(btns, jolts, subset) ==
  LET num_counters == Len(jolts)
      full_a == BuildFullA(btns, num_counters)
      max_jolt == MaxSeq(jolts)
  IN  IF Len(subset) < num_counters THEN DirectCandidates(full_a, jolts, subset)
      ELSE FreeCandidates(full_a, jolts, subset, Len(subset) - num_counters,
                          max_jolt, jolts, btns)

\* The candidates one subset contributes, by the branch the loop body takes.
SubsetCandidates(btns, jolts, subset) ==
  LET num_counters == Len(jolts)
      full_a == BuildFullA(btns, num_counters)
      max_jolt == MaxSeq(jolts)
  IN  IF Len(subset) <= num_counters THEN DirectCandidates(full_a, jolts, subset)
      ELSE FreeCandidates(full_a, jolts, subset, Len(subset) - num_counters,
                          max_jolt, jolts, btns)

\* Faulty variant of max_subset_size: the cap one size further, so that
\* subsets with three free variables reach the loop body.
max_subset_size_three(btns, jolts) == Min2(Len(jolts) + 3, Len(btns))

\* Faulty variant of max_subset_size: the bound of a loop 1..max, not 1..=max.
max_subset_size_exclusive(btns, jolts) == Min2(Len(jolts) + 2, Len(btns)) - 1

\* max_subset_size, the last size of the loop `for size in 1..=max_subset_size`.
max_subset_size(btns, jolts) == Min2(Len(jolts) + 2, Len(btns))

\* Faulty variant of FoldBest: the candidate replaces best.
FoldBestOverwrite(b, candidate) == IF candidate = None THEN b ELSE Get(candidate)

\* Faulty variant of FoldBest: a subset without candidate resets best.
FoldBestReset(b, candidate) ==
  IF candidate = None THEN I32Max ELSE Min2(b, Get(candidate))

\* Faulty variant of FoldBest: best.max(c) in place of best.min(c).
FoldBestLargest(b, candidate) == IF candidate = None THEN b ELSE Max2(b, Get(candidate))

\* if let Some(c) = candidate { best = best.min(c) }.
FoldBest(b, candidate) == IF candidate = None THEN b ELSE Min2(b, Get(candidate))
----------------------------------------------------------------------------
(* find_min_joltage_presses as a state machine: one step per subset.       *)

\* A button is the set of the counter indices it lists; an index at or
\* past the number of counters is one the machine has no counter for.
ButtonSets == SUBSET (0..(MaxCounters - 1))

Machines ==
  {<<bs, js>> : bs \in UNION {[1..n -> ButtonSets] : n \in 0..MaxButtons},
                js \in UNION {[1..n -> 0..MaxJolt] : n \in 0..MaxCounters}}

NoSubset == [subset |-> <<>>, acc |-> {}, candidate |-> None]

\* The joltage search when another program runs: as before its first step.
IdleSearch ==
  /\ size = 0
  /\ idx = 0
  /\ best = I32Max
  /\ last = NoSubset
  /\ seen = {}
  /\ visited = {}
  /\ evals = 0

Init ==
  /\ \E m \in Machines : buttons = m[1] /\ joltages = m[2]
  /\ pc = "start"
  /\ size = 0
  /\ idx = 0
  /\ best = I32Max
  /\ last = NoSubset
  /\ seen = {}
  /\ visited = {}
  /\ evals = 0
  /\ result = None
  /\ NoOtherProgram

\* Faulty variant of Degenerate: the sentinel when a target is non-zero.
DegenerateSentinel ==
  /\ pc = "start"
  /\ (Len(buttons) = 0 \/ Len(joltages) = 0)
  /\ result' = Some(IF \E c \in 1..Len(joltages) : joltages[c] # 0 THEN -1 ELSE 0)
  /\ pc' = "done"
  /\ UNCHANGED <<otherPrograms, buttons, joltages, size, idx, best, last, seen, visited, evals>>

\* The early return for a machine without buttons or without counters.
Degenerate ==
  /\ pc = "start"
  /\ (Len(buttons) = 0 \/ Len(joltages) = 0)
  /\ result' = Some(0)
  /\ pc' = "done"
  /\ UNCHANGED <<otherPrograms, buttons, joltages, size, idx, best, last, seen, visited, evals>>

\* Entering the loops: best = i32::MAX, size = 1, the first combination.
Begin ==
  /\ pc = "start"
  /\ Len(buttons) # 0
  /\ Len(joltages) # 0
  /\ pc' = "search"
  /\ size' = 1
  /\ idx' = 1
  /\ best' = I32Max
  /\ UNCHANGED <<otherPrograms, buttons, joltages, last, seen, visited, evals, result>>

\* The two for loops alone: while subset_size is within max_subset_size,
\* the next combination of this size or the first one of the next size.
NextSubset ==
  /\ pc = "search"
  /\ size <= max_subset_size(buttons, joltages)
  /\ IF idx < Len(combinations(Len(buttons), size))
       THEN idx' = idx + 1 /\ size' = size
       ELSE idx' = 1 /\ size' = size + 1
  /\ pc' = pc

\* One iteration of the inner loop: the subset's candidate, then
\* best = best.min(c), then the next combination or the next size.
EvalSubset ==
  /\ NextSubset
  /\ LET combos == combinations(Len(buttons), size)
         subset == combos[idx]
     IN  /\ \E acc \in {SubsetCandidates(buttons, joltages, subset)} :
              LET candidate == BestOf(acc)
              IN  /\ best' = FoldBest(best, candidate)
                  /\ last' = [subset |-> subset, acc |-> acc, candidate |-> candidate]
                  /\ seen' = seen \cup {a.total : a \in acc}
         /\ visited' = visited \cup {subset}
         /\ evals' = evals + 1
  /\ UNCHANGED <<otherPrograms, buttons, joltages, result>>

\* Faulty variant of Finish: best returned as it is, placeholder included.
FinishPlaceholder ==
  /\ pc = "search"
  /\ size > max_subset_size(buttons, joltages)
  /\ result' = Some(best)
  /\ pc' = "done"
  /\ UNCHANGED <<otherPrograms, buttons, joltages, size, idx, best, last, seen, visited, evals>>

\* After the loops: the sentinel -1 or the minimum.
Finish ==
  /\ pc = "search"
  /\ size > max_subset_size(buttons, joltages)
  /\ result' = Some(IF best = I32Max THEN -1 ELSE best)
  /\ pc' = "done"
  /\ UNCHANGED <<otherPrograms, buttons, joltages, size, idx, best, last, seen, visited, evals>>

Next == Degenerate \/ Begin \/ EvalSubset \/ Finish

Spec == Init /\ [][Next]_vars

\* A second family of machines: four counters, the buttons a prefix of
\* WideButtons.  In WideButtons twice the first column plus the fourth
\* equals the second plus the third, so the four columns have rank 3.
MaxJoltWide == 3
WideButtons == <<{0}, {0, 1, 3}, {0, 2}, {1, 2, 3}>>
WideCounters == Cardinality(UNION {WideButtons[j] : j \in 1..Len(WideButtons)})

WideMachines ==
  {<<SubSeq(WideButtons, 1, n), js>> :
     n \in 0..Len(WideButtons), js \in [1..WideCounters -> 0..MaxJoltWide]}

InitWide ==
  /\ \E m \in WideMachines : buttons = m[1] /\ joltages = m[2]
  /\ pc = "start"
  /\ size = 0
  /\ idx = 0
  /\ best = I32Max
  /\ last = NoSubset
  /\ seen = {}
  /\ visited = {}
  /\ evals = 0
  /\ result = None
  /\ NoOtherProgram

SpecWide == InitWide /\ [][Next]_vars
\* A third family of machines: one counter (or none) and up to MaxButtonsNarrow
\* buttons, each wired to the counter or to nothing, so that there are more
\* buttons than num_counters + 2 and max_subset_size is below num_buttons.
MaxButtonsNarrow == 4
MaxJoltNarrow == 4

NarrowMachines ==
  {<<bs, js>> :
     bs \in UNION {[1..n -> SUBSET {0}] : n \in 0..MaxButtonsNarrow},
     js \in {<<>>} \cup {<<v>> : v \in 0..MaxJoltNarrow}}

InitNarrow ==
  /\ \E m \in NarrowMachines : buttons = m[1] /\ joltages = m[2]
  /\ pc = "start"
  /\ size = 0
  /\ idx = 0
  /\ best = I32Max
  /\ last = NoSubset
  /\ seen = {}
  /\ visited = {}
  /\ evals = 0
  /\ result = None
  /\ NoOtherProgram

SpecNarrow == InitNarrow /\ [][Next]_vars

\* The subsets the two loops go through: every combination of every size
\* from 1 to max_subset_size.
AllSubsets(btns, jolts) ==
  UNION {{combinations(Len(btns), s)[i] :
            i \in 1..Len(combinations(Len(btns), s))} :
         s \in 1..max_subset_size(btns, jolts)}

\* The body of the loops run on any subset not yet evaluated, in no fixed
\* order: the schedule of workers that each take a subset and reduce their
\* candidates into best with a minimum.
EvalAnySubset ==
  /\ pc = "search"
  /\ \E subset \in AllSubsets(buttons, joltages) \ visited :
       \E acc \in {SubsetCandidates(buttons, joltages, subset)} :
         LET candidate == BestOf(acc)
         IN  /\ best' = FoldBest(best, candidate)
             /\ last' = [subset |-> subset, acc |-> acc, candidate |-> candidate]
             /\ seen' = seen \cup {a.total : a \in acc}
             /\ visited' = visited \cup {subset}
             /\ evals' = evals + 1
  /\ UNCHANGED <<otherPrograms, buttons, joltages, pc, size, idx, result>>

\* The return once every subset has been evaluated.
FinishAnyOrder ==
  /\ pc = "search"
  /\ visited = AllSubsets(buttons, joltages)
  /\ result' = Some(IF best = I32Max THEN -1 ELSE best)
  /\ pc' = "done"
  /\ UNCHANGED <<otherPrograms, buttons, joltages, size, idx, best, last, seen, visited, evals>>

NextAnyOrder == Degenerate \/ Begin \/ EvalAnySubset \/ FinishAnyOrder

\* The machines of the any-order search: two counters, the buttons a prefix
\* of AnyOrderButtons (two single buttons and the one wired to both).
MaxJoltAnyOrder == 5
AnyOrderButtons == <<{0}, {1}, {0, 1}>>
AnyOrderCounters ==
  Cardinality(UNION {AnyOrderButtons[j] : j \in 1..Len(AnyOrderButtons)})

AnyOrderMachines ==
  {<<SubSeq(AnyOrderButtons, 1, n), js>> :
     n \in 0..Len(AnyOrderButtons),
     js \in [1..AnyOrderCounters -> 0..MaxJoltAnyOrder]}

InitAnyOrder ==
  /\ \E m \in AnyOrderMachines : buttons = m[1] /\ joltages = m[2]
  /\ pc = "start"
  /\ size = 0
  /\ idx = 0
  /\ best = I32Max
  /\ last = NoSubset
  /\ seen = {}
  /\ visited = {}
  /\ evals = 0
  /\ result = None
  /\ NoOtherProgram

SpecAnyOrder == InitAnyOrder /\ [][NextAnyOrder]_vars

\* A fourth family of machines: three counters, the buttons a prefix of
\* TriButtons.  The first three columns have determinant 2, so that with
\* them as the basic columns x0 and coef have halves as components.
MaxJoltTri == 3
TriButtons == <<{0, 1}, {1, 2}, {0, 2}, {0}>>
TriCounters == Cardinality(UNION {TriButtons[j] : j \in 1..Len(TriButtons)})

TriMachines ==
  {<<SubSeq(TriButtons, 1, n), js>> :
     n \in 0..Len(TriButtons), js \in [1..TriCounters -> 0..MaxJoltTri]}

InitTri ==
  /\ \E m \in TriMachines : buttons = m[1] /\ joltages = m[2]
  /\ pc = "start"
  /\ size = 0
  /\ idx = 0
  /\ best = I32Max
  /\ last = NoSubset
  /\ seen = {}
  /\ visited = {}
  /\ evals = 0
  /\ result = None
  /\ NoOtherProgram

SpecTri == InitTri /\ [][Next]_vars

\* A fifth family of machines: up to four counters, the buttons a prefix
\* of QuadButtons (an index that is not a counter of the machine is without
\* effect, as in the source).  With four counters and all five buttons in
\* the subset, coef has components 2 and 3 in absolute value, so that the
\* bounds x0[i] / coef[i] of the free variable are proper fractions.
MaxJoltQuad == 2
QuadButtons == <<{0}, {0, 2}, {1, 2}, {2, 3}, {0, 1, 3}>>
QuadCounters == Cardinality(UNION {QuadButtons[j] : j \in 1..Len(QuadButtons)})

QuadMachines ==
  {<<SubSeq(QuadButtons, 1, n), js>> :
     n \in 0..Len(QuadButtons),
     js \in UNION {[1..k -> 0..MaxJoltQuad] : k \in 0..QuadCounters}}

InitQuad ==
  /\ \E m \in QuadMachines : buttons = m[1] /\ joltages = m[2]
  /\ pc = "start"
  /\ size = 0
  /\ idx = 0
  /\ best = I32Max
  /\ last = NoSubset
  /\ seen = {}
  /\ visited = {}
  /\ evals = 0
  /\ result = None
  /\ NoOtherProgram

SpecQuad == InitQuad /\ [][Next]_vars

\* A sixth family of machines: one counter whose target lies within
\* CapMargin of the cap of 100 on the first free variable, the buttons a
\* prefix of CapButtons.
CapMargin == 3
CapButtons == <<{0}, {}, {0}>>

CapMachines ==
  {<<SubSeq(CapButtons, 1, n), <<v>>>> :
     n \in 0..Len(CapButtons), v \in (FvCap - CapMargin)..(FvCap + CapMargin)}

InitCap ==
  /\ \E m \in CapMachines : buttons = m[1] /\ joltages = m[2]
  /\ pc = "start"
  /\ size = 0
  /\ idx = 0
  /\ best = I32Max
  /\ last = NoSubset
  /\ seen = {}
  /\ visited = {}
  /\ evals = 0
  /\ result = None
  /\ NoOtherProgram

SpecCap == InitCap /\ [][Next]_vars

\* The function is sequential code without blocking: while its position
\* <<pc, size, idx>> can advance (an early return, entering the loops, the
\* next subset, the return after the loops), it does.
SpecNarrowFair ==
  SpecNarrow /\ WF_<<pc, size, idx>>(Degenerate \/ Begin \/ NextSubset \/ Finish)

\* The two exactness checks side by side, on any machine, subset and press
\* vector: machines with up to MaxButtonsCheck buttons over the indices
\* 0..MaxCountersCheck (the last one beyond every counter) and up to
\* MaxCountersCheck counters, subsets any sequence of button indices of the
\* same length as the press vector, presses in -MaxOwedCheck..MaxPressCheck.
MaxButtonsCheck == 2
MaxCountersCheck == 2
MaxJoltCheck == 2
MaxPressCheck == 2
MaxOwedCheck == 1

CheckMachines ==
  {<<bs, js>> :
     bs \in UNION {[1..n -> SUBSET (0..MaxCountersCheck)] : n \in 0..MaxButtonsCheck},
     js \in UNION {[1..n -> 0..MaxJoltCheck] : n \in 0..MaxCountersCheck}}

InitCheck ==
  /\ \E m \in CheckMachines : buttons = m[1] /\ joltages = m[2]
  /\ pc = "start"
  /\ result = None
  /\ IdleSearch
  /\ NoOtherProgram

\* The inline double-check on the rows of full_a and verify_solution on the
\* raw index lists, for the same subset and press vector.
CheckBoth ==
  /\ pc = "start"
  /\ \E k \in 0..Len(buttons) :
       \E subset \in [1..k -> 0..(Len(buttons) - 1)] :
         \E solution \in [1..k -> (0 - MaxOwedCheck)..MaxPressCheck] :
           verdict' = [subset |-> subset,
                       solution |-> solution,
                       valid |-> DirectValid(BuildFullA(buttons, Len(joltages)),
                                             joltages, subset, solution),
                       verified |-> verify_solution(joltages, buttons, subset,
                                                    solution)]
  /\ pc' = "done"
  /\ UNCHANGED <<buttons, joltages, result, searchVars, light_target,
                 dialVars, gridVars, unionVars>>

SpecCheck == InitCheck /\ [][CheckBoth]_vars

----------------------------------------------------------------------------
(* Day 10, part 1: find_min_presses over the lights.  Here a button is the *)
(* list of the light indices it names, in the order and as often as the    *)
(* input line names them, and a mask is the set of its one-bits, bit       *)
(* btn_idx standing for the button btn_idx.                                *)

\* The width of `mask as u32`, what count_ones() looks at.
U32Bits == 32

\* The number of times idx occurs in the list btn.
RECURSIVE Occurrences(_, _)
Occurrences(btn, light) ==
  IF btn = <<>> THEN 0
  ELSE (IF Head(btn) = light THEN 1 ELSE 0) + Occurrences(Tail(btn), light)

\* apply_buttons(num_lights, mask, buttons): every light starts off and is
\* flipped once for each time a button of the mask names it; an index of
\* num_lights or more is passed over.
apply_buttons(num_lights, mask, btns) ==
  LET RECURSIVE flips(_, _)
      flips(S, light) ==
        IF S = {} THEN 0
        ELSE LET btn_idx == CHOOSE q \in S : TRUE
             IN  Occurrences(btns[btn_idx + 1], light) + flips(S \ {btn_idx}, light)
  IN  Vec([i \in 1..num_lights |-> flips(mask, i - 1) % 2 = 1])

\* The subsets of 0..n-1 with k elements.
RECURSIVE KSubsets(_, _)
KSubsets(n, k) ==
  IF k = 0 THEN {{}}
  ELSE IF n < k THEN {}
  ELSE KSubsets(n - 1, k) \cup {s \cup {n - 1} : s \in KSubsets(n - 1, k - 1)}

\* The masks in 0..total-1, total = 1 << num_buttons, that pass the test
\* (mask as u32).count_ones() == target_count: target_count one-bits among
\* the bits 0..U32Bits-1, the bits from U32Bits on being cut off by the
\* cast and so free.
MasksOfCount(num_buttons, target_count) ==
  {low \cup high :
     low \in KSubsets(Min2(num_buttons, U32Bits), target_count),
     high \in SUBSET (U32Bits..(num_buttons - 1))}

\* The loops of find_min_presses from target_count on: the first
\* target_count with a mask that produces the target, or -1.
RECURSIVE SearchFrom(_, _, _)
SearchFrom(target, btns, target_count) ==
  IF target_count > Len(btns) THEN -1
  ELSE IF \E mask \in MasksOfCount(Len(btns), target_count) :
            apply_buttons(Len(target), mask, btns) = target
         THEN target_count
         ELSE SearchFrom(target, btns, target_count + 1)

find_min_presses(target, btns) == SearchFrom(target, btns, 0)

\* The machines: up to MaxLights lights and up to MaxLightButtons buttons,
\* a button a list of up to MaxListed indices in 0..MaxLights (the index
\* MaxLights is beyond every light), and the machines of ManyButtons
\* buttons: ManyButtons - 1 buttons for the second light and a last button,
\* the one of bit U32Bits, for the first light or for both.
MaxLights == 2
MaxLightButtons == 3
MaxListed == 2
ManyButtons == U32Bits + 1

ButtonLists == UNION {[1..n -> 0..MaxLights] : n \in 0..MaxListed}

LightMachines ==
  {<<t, bs>> :
     t \in UNION {[1..n -> BOOLEAN] : n \in 0..MaxLights},
     bs \in UNION {[1..n -> ButtonLists] : n \in 0..MaxLightButtons}}
  \cup
  {<<t, [j \in 1..ManyButtons |-> IF j < ManyButtons THEN <<1>> ELSE lst]>> :
     t \in [1..MaxLights -> BOOLEAN], lst \in {<<0>>, <<0, 1>>}}

InitLights ==
  /\ \E m \in LightMachines : light_target = m[1] /\ buttons = m[2]
  /\ joltages = <<>>
  /\ verdict = <<>>
  /\ pc = "start"
  /\ result = None
  /\ IdleSearch
  /\ IdleDial /\ IdleGrid /\ IdleUnionFind

\* The call find_min_presses(m).
FindMinPresses ==
  /\ pc = "start"
  /\ result' = Some(find_min_presses(light_target, buttons))
  /\ pc' = "done"
  /\ UNCHANGED <<buttons, joltages, searchVars, lightVars, dialVars, gridVars,
                 unionVars>>

SpecLights == InitLights /\ [][FindMinPresses]_vars

----------------------------------------------------------------------------
(* Day 1 (src/day01/src/main.rs): the dial of solve_part2, one action per  *)
(* rotation of the input.  solve keeps the same position by the same       *)
(* apply_rotation.  Positions, distances and counts are i32: an addition   *)
(* or subtraction that leaves the i32 range panics in a build with         *)
(* overflow checks and wraps in a build without, and the model takes       *)
(* either outcome.                                                         *)

I32Min == -I32Max - 1
DialSize == 100
DialStart == 50

\* x + y and x - y leave the i32 range.
AddOverflows(x, y) == (y > 0 /\ x > I32Max - y) \/ (y < 0 /\ x < I32Min - y)
SubOverflows(x, y) == (y > 0 /\ x < I32Min + y) \/ (y < 0 /\ x > I32Max + y)

\* x + y and x - y modulo 2^32, as a build without overflow checks
\* computes them.
WrappingAdd(x, y) ==
  IF y > 0 /\ x > I32Max - y THEN I32Min + ((x - (I32Max - y)) - 1)
  ELSE IF y < 0 /\ x < I32Min - y THEN I32Max - (((I32Min - y) - x) - 1)
  ELSE x + y
WrappingSub(x, y) ==
  IF y > 0 /\ x < I32Min + y THEN I32Max - (((I32Min + y) - x) - 1)
  ELSE IF y < 0 /\ x > I32Max + y THEN I32Min + ((x - (I32Max + y)) - 1)
  ELSE x - y

\* apply_rotation(position, direction, distance) without overflow checks.
apply_rotation(pos, direction, distance) ==
  LET new_position == IF direction = "L" THEN WrappingSub(pos, distance)
                      ELSE WrappingAdd(pos, distance)
  IN  new_position % DialSize

\* count_zeros_crossed(start, direction, distance) without overflow checks:
\* the multiples of 100 in [a, b].
count_zeros_crossed(start, direction, distance) ==
  LET a == IF direction = "L" THEN WrappingSub(start, distance) ELSE WrappingAdd(start, 1)
      b == IF direction = "L" THEN WrappingSub(start, 1) ELSE WrappingAdd(start, distance)
  IN  (b \div DialSize) - (WrappingSub(a, 1) \div DialSize)

\* One of the additions and subtractions of a rotation overflows.
RotationOverflows(start, direction, distance) ==
  IF direction = "L"
    THEN \/ SubOverflows(start, distance)
         \/ SubOverflows(start, 1)
         \/ SubOverflows(WrappingSub(start, distance), 1)
    ELSE \/ AddOverflows(start, 1)
         \/ AddOverflows(start, distance)

\* The rotations of the input: up to MaxRotations of them, a distance up
\* to MaxDistance or within TopMargin of i32::MAX.
MaxRotations == 2
MaxDistance == 130
TopMargin == 2

Distances == (0..MaxDistance) \cup {I32Max - k : k \in 0..TopMargin}

InitDial ==
  /\ position = DialStart
  /\ zero_count = 0
  /\ rotation = <<>>
  /\ buttons = <<>>
  /\ joltages = <<>>
  /\ pc = "start"
  /\ result = None
  /\ IdleSearch
  /\ IdleLights /\ IdleGrid /\ IdleUnionFind

\* The number of rotations made so far.
Rotations == IF rotation = <<>> THEN 0 ELSE rotation.n

\* One iteration of the loop of solve_part2: zero_count +=
\* count_zeros_crossed(...), then position = apply_rotation(...).
Rotate ==
  /\ pc = "start"
  /\ Rotations < MaxRotations
  /\ \E direction \in {"L", "R"}, distance \in Distances :
       /\ ~RotationOverflows(position, direction, distance)
       /\ LET crossed == count_zeros_crossed(position, direction, distance)
          IN  /\ zero_count' = zero_count + crossed
              /\ position' = apply_rotation(position, direction, distance)
              /\ rotation' = [n |-> Rotations + 1, start |-> position,
                              direction |-> direction, distance |-> distance,
                              crossed |-> Some(crossed)]
  /\ UNCHANGED <<buttons, joltages, pc, result, searchVars, lightVars,
                 gridVars, unionVars>>

\* The same iteration when an addition overflows, in a build without
\* overflow checks: the sums wrap.
RotateWrapping ==
  /\ pc = "start"
  /\ Rotations < MaxRotations
  /\ \E direction \in {"L", "R"}, distance \in Distances :
       /\ RotationOverflows(position, direction, distance)
       /\ LET crossed == count_zeros_crossed(position, direction, distance)
          IN  /\ zero_count' = zero_count + crossed
              /\ position' = apply_rotation(position, direction, distance)
              /\ rotation' = [n |-> Rotations + 1, start |-> position,
                              direction |-> direction, distance |-> distance,
                              crossed |-> Some(crossed)]
  /\ UNCHANGED <<buttons, joltages, pc, result, searchVars, lightVars,
                 gridVars, unionVars>>

\* The same iteration when an addition overflows, in a build with overflow
\* checks: count_zeros_crossed panics and returns nothing.
RotatePanic ==
  /\ pc = "start"
  /\ Rotations < MaxRotations
  /\ \E direction \in {"L", "R"}, distance \in Distances :
       /\ RotationOverflows(position, direction, distance)
       /\ rotation' = [n |-> Rotations + 1, start |-> position,
                       direction |-> direction, distance |-> distance,
                       crossed |-> None]
  /\ pc' = "panic"
  /\ UNCHANGED <<buttons, joltages, result, searchVars, lightVars,
                 position, zero_count, gridVars, unionVars>>

\* The end of the input: solve_part2 returns zero_count.
DialReturn ==
  /\ pc = "start"
  /\ result' = Some(zero_count)
  /\ pc' = "done"
  /\ UNCHANGED <<buttons, joltages, searchVars, lightVars, dialVars,
                 gridVars, unionVars>>

NextDial == Rotate \/ RotateWrapping \/ RotatePanic \/ DialReturn

SpecDial == InitDial /\ [][NextDial]_vars

----------------------------------------------------------------------------
(* Day 4 (src/day04/src/main.rs): solve_part2, one action per round of its *)
(* loop.  A grid is a sequence of rows of equal length, a row a sequence   *)
(* of "@" (a roll) and "." (no roll); rows and columns are counted from 0  *)
(* as in the source.                                                       *)

NeighborLimit == 4

\* The eight deltas of count_neighbors.
Deltas == {<<dr, dc>> \in (-1..1) \X (-1..1) : <<dr, dc>> # <<0, 0>>}

\* count_neighbors(grid, row, col): the deltas that lead to a cell inside
\* the grid holding a roll.
count_neighbors(g, row, col) ==
  LET rows == Len(g)
      cols == Len(g[1])
  IN  Cardinality({d \in Deltas :
                     LET nr == row + d[1]
                         nc == col + d[2]
                     IN  /\ nr >= 0 /\ nc >= 0
                         /\ nr < rows /\ nc < cols
                         /\ g[nr + 1][nc + 1] = "@"})

\* Faulty variant of find_accessible: neighbors <= 4.
find_accessible_lenient(g) ==
  {<<row, col>> \in UNION {{<<r, c>> : c \in 0..(Len(g[1]) - 1)} : r \in 0..(Len(g) - 1)} :
     /\ g[row + 1][col + 1] = "@"
     /\ count_neighbors(g, row, col) <= NeighborLimit}

\* find_accessible(grid): the positions of the rolls with fewer than 4
\* neighbours; no roll is listed twice, so the length of the vector is the
\* size of this set.
find_accessible(g) ==
  {<<row, col>> \in UNION {{<<r, c>> : c \in 0..(Len(g[1]) - 1)} : r \in 0..(Len(g) - 1)} :
     /\ g[row + 1][col + 1] = "@"
     /\ count_neighbors(g, row, col) < NeighborLimit}

\* The grids: up to MaxRows rows of up to MaxCols cells.
MaxRows == 4
MaxCols == 4

Grids ==
  UNION {[1..r -> [1..c -> {"@", "."}]] : r \in 0..MaxRows, c \in 0..MaxCols}

InitGrid ==
  /\ grid \in Grids
  /\ initial_grid = grid
  /\ total_removed = 0
  /\ buttons = <<>>
  /\ joltages = <<>>
  /\ pc = "start"
  /\ result = None
  /\ IdleSearch
  /\ IdleLights /\ IdleDial /\ IdleUnionFind

\* One round of the loop with accessible rolls: all of them replaced by
\* ".", total_removed += accessible.len().
RemoveRound ==
  /\ pc = "start"
  /\ \E accessible \in {find_accessible(grid)} :
       /\ accessible # {}
       /\ grid' = [r \in 1..Len(grid) |->
                     [c \in 1..Len(grid[r]) |->
                        IF <<r - 1, c - 1>> \in accessible THEN "." ELSE grid[r][c]]]
       /\ total_removed' = total_removed + Cardinality(accessible)
  /\ UNCHANGED <<buttons, joltages, pc, result, searchVars, lightVars,
                 dialVars, initial_grid, unionVars>>

\* The round that finds nothing accessible: break, and total_removed is
\* returned.
GridReturn ==
  /\ pc = "start"
  /\ find_accessible(grid) = {}
  /\ result' = Some(total_removed)
  /\ pc' = "done"
  /\ UNCHANGED <<buttons, joltages, searchVars, lightVars, dialVars, gridVars,
                 unionVars>>

NextGrid == RemoveRound \/ GridReturn

SpecGrid == InitGrid /\ [][NextGrid]_vars

\* The loop is sequential code without blocking: a round that can be made
\* is made.
SpecGridFair == SpecGrid /\ WF_vars(NextGrid)

----------------------------------------------------------------------------
(* Day 8 (src/day08/src/main.rs): the UnionFind, one action per call of    *)
(* find or union.  Elements are 0..n-1 as in the source; parent[x + 1] and *)
(* rank[x + 1] are the source's parent[x] and rank[x].                     *)

\* find(x) with path compression: the root, and parent after the call.
RECURSIVE find(_, _)
find(par, x) ==
  IF par[x + 1] # x
    THEN LET up == find(par, par[x + 1])
         IN  [parent |-> [up.parent EXCEPT ![x + 1] = up.root], root |-> up.root]
    ELSE [parent |-> par, root |-> x]

\* Faulty variant of union: x and y themselves are linked, not their
\* roots.
union_unrooted(par, rk, x, y) ==
  LET fx == find(par, x)
      fy == find(fx.parent, y)
      root_x == fx.root
      root_y == fy.root
      p == fy.parent
  IN  IF root_x = root_y THEN [parent |-> p, rank |-> rk, value |-> FALSE]
      ELSE IF rk[root_x + 1] < rk[root_y + 1]
        THEN [parent |-> [p EXCEPT ![x + 1] = y], rank |-> rk, value |-> TRUE]
      ELSE IF rk[root_x + 1] > rk[root_y + 1]
        THEN [parent |-> [p EXCEPT ![y + 1] = x], rank |-> rk, value |-> TRUE]
      ELSE [parent |-> [p EXCEPT ![y + 1] = x],
            rank |-> [rk EXCEPT ![root_x + 1] = @ + 1], value |-> TRUE]

\* union(x, y): the two finds, then the root of the lower rank under the
\* other one; parent, rank and the value returned.
union(par, rk, x, y) ==
  LET fx == find(par, x)
      fy == find(fx.parent, y)
      root_x == fx.root
      root_y == fy.root
      p == fy.parent
  IN  IF root_x = root_y THEN [parent |-> p, rank |-> rk, value |-> FALSE]
      ELSE IF rk[root_x + 1] < rk[root_y + 1]
        THEN [parent |-> [p EXCEPT ![root_x + 1] = root_y], rank |-> rk,
              value |-> TRUE]
      ELSE IF rk[root_x + 1] > rk[root_y + 1]
        THEN [parent |-> [p EXCEPT ![root_y + 1] = root_x], rank |-> rk,
              value |-> TRUE]
      ELSE [parent |-> [p EXCEPT ![root_y + 1] = root_x],
            rank |-> [rk EXCEPT ![root_x + 1] = @ + 1], value |-> TRUE]

\* UnionFind::new(n) for n up to MaxElements.
MaxElements == 4

InitUnionFind ==
  /\ \E n \in 1..MaxElements :
       /\ parent = [x \in 1..n |-> x - 1]
       /\ rank = [x \in 1..n |-> 0]
  /\ unions = {}
  /\ returned = <<>>
  /\ buttons = <<>>
  /\ joltages = <<>>
  /\ pc = "start"
  /\ result = None
  /\ IdleSearch
  /\ IdleLights /\ IdleDial /\ IdleGrid

\* A call of find(x).
Find ==
  /\ \E x \in 0..(Len(parent) - 1) :
       \E f \in {find(parent, x)} :
         /\ parent' = f.parent
         /\ returned' = [op |-> "find", x |-> x, y |-> x, value |-> f.root,
                         was |-> parent[x + 1]]
  /\ UNCHANGED <<buttons, joltages, pc, result, searchVars, lightVars,
                 dialVars, gridVars, rank, unions>>

\* A call of union(x, y).
Union ==
  /\ \E x \in 0..(Len(parent) - 1), y \in 0..(Len(parent) - 1) :
       \E u \in {union(parent, rank, x, y)} :
         /\ parent' = u.parent
         /\ rank' = u.rank
         /\ unions' = unions \cup {{x, y}}
         /\ returned' = [op |-> "union", x |-> x, y |-> y, value |-> u.value,
                         was |-> parent[x + 1]]
  /\ UNCHANGED <<buttons, joltages, pc, result, searchVars, lightVars,
                 dialVars, gridVars>>

NextUnionFind == Find \/ Union

SpecUnionFind == InitUnionFind /\ [][NextUnionFind]_vars

----------------------------------------------------------------------------
(* Properties.                                                             *)

Done == pc = "done"
NumButtons == Len(buttons)
NumCounters == Len(joltages)

\* What pressing the subset's buttons presses[p] times each adds to counter c.
Pressed(c, subset, presses) ==
  LET hit == {p \in 1..Len(subset) : c \in buttons[subset[p] + 1]}
      RECURSIVE sum(_)
      sum(S) == IF S = {} THEN 0
                ELSE LET p == CHOOSE q \in S : TRUE IN presses[p] + sum(S \ {p})
  IN  sum(hit)

\* The press vectors over all buttons that reach every target.  No button
\* that adds to a counter can be pressed more often than the largest
\* target, and a button that adds to none is pressed 0 times in a minimum.
Solutions ==
  {x \in [1..NumButtons -> 0..MaxSeq(joltages)] :
     \A c \in 0..(NumCounters - 1) :
       Pressed(c, [j \in 1..NumButtons |-> j - 1], x) = joltages[c + 1]}

TrueMinimum == MinSet({SumSeq(x) : x \in Solutions})

\* C1: for a machine with at least one button and one counter that some
\* non-negative integer press vector solves, the result is the minimum of
\* sum(x) over all such vectors.
C1_TrueOptimum ==
  (Done /\ NumButtons >= 1 /\ NumCounters >= 1 /\ Solutions # {})
    => Get(result) = TrueMinimum

\* C2: every candidate total compared against the running minimum is the
\* total of an integer press vector over the subset that brings every
\* counter exactly to its target.
C2_CandidatesExact ==
  /\ \A a \in last.acc :
       /\ Len(a.presses) = Len(last.subset)
       /\ a.total = SumSeq(a.presses)
       /\ \A c \in 0..(NumCounters - 1) :
            Pressed(c, last.subset, a.presses) = joltages[c + 1]
  /\ last.candidate # None =>
       \E a \in last.acc : a.total = Get(last.candidate)

\* C2's case: a subset with two free variables (d = 2) that had candidates
\* accepted with different press vectors.
C2_Witness ==
  /\ Len(last.subset) = NumCounters + 2
  /\ Cardinality(last.acc) >= 2

\* C3: every component of every accepted press vector is a non-negative
\* integer.
C3_PressesNonNegative ==
  \A a \in last.acc : \A p \in 1..Len(a.presses) : a.presses[p] \in Nat

\* C3's case: a subset with one free variable (d = 1) accepted with two
\* or more of its buttons pressed.
C3_Witness ==
  /\ Len(last.subset) = NumCounters + 1
  /\ \E a \in last.acc :
       Cardinality({p \in 1..Len(a.presses) : a.presses[p] > 0}) >= 2

\* C4: when a candidate was accepted, the result is the total of an
\* accepted candidate and at most the total of every accepted candidate.
C4_MinimumOfAccepted ==
  (Done /\ seen # {}) =>
    /\ Get(result) \in seen
    /\ \A t \in seen : Get(result) <= t

\* C4's case: a finished search that accepted candidates of three or more
\* different totals.
C4_Witness == Done /\ Cardinality(seen) >= 3 /\ Get(result) = MinSet(seen)

\* C5: with at least one button and one counter, the result is -1 exactly
\* when no subset had a candidate accepted; otherwise it is >= 0 and not
\* the placeholder i32::MAX.
C5_SentinelIffNone ==
  (Done /\ NumButtons >= 1 /\ NumCounters >= 1) =>
    /\ (Get(result) = -1) <=> (seen = {})
    /\ seen # {} => (Get(result) >= 0 /\ Get(result) # I32Max)

\* C5's case: a finished search over several subsets, none accepted.
C5_Witness ==
  Done /\ NumButtons >= 2 /\ NumCounters >= 1 /\ seen = {} /\ Get(result) = -1

\* C6: a machine with a counter of non-zero target that no button lists
\* results in -1.
C6_UncoveredSentinel ==
  (Done /\ \E c \in 0..(NumCounters - 1) :
              /\ joltages[c + 1] # 0
              /\ \A j \in 1..NumButtons : c \notin buttons[j])
    => Get(result) = -1

\* C7: a machine with no buttons or no counters results in 0, whatever the
\* other field holds, and no subset is evaluated.
C7_DegenerateZero ==
  (Done /\ (NumButtons = 0 \/ NumCounters = 0)) =>
    /\ Get(result) = 0
    /\ size = 0 /\ idx = 0 /\ last = NoSubset /\ seen = {}

\* C7's case: a finished machine without counters that has buttons.
C7_Witness == Done /\ NumCounters = 0 /\ NumButtons = MaxButtons

\* C8: a machine whose joltages are all 0 results in 0, whatever its
\* buttons.
C8_AllZero ==
  (Done /\ \A c \in 1..NumCounters : joltages[c] = 0) => Get(result) = 0

\* C8's case: all targets 0, several buttons, one of them empty and one not.
C8_Witness ==
  /\ Done
  /\ NumCounters = MaxCounters
  /\ \A c \in 1..NumCounters : joltages[c] = 0
  /\ \E j, k \in 1..NumButtons : buttons[j] = {} /\ buttons[k] # {}

SharedMachine == buttons = <<{0}, {1}, {0, 1}>> /\ joltages = <<3, 5>>

\* C9 as stated: buttons [{0}, {1}, {0,1}] with joltages [3, 5] result in 8.
C9_SharedButtonEight == (Done /\ SharedMachine) => Get(result) = 8

\* C9 as amended: buttons [{0}, {1}, {0,1}] with joltages [3, 5] result in
\* 5 (button {0,1} three times and button {1} twice).
C9_SharedButtonFive == (Done /\ SharedMachine) => Get(result) = 5

\* C9's case: the search over that machine has finished.
C9_Witness == Done /\ SharedMachine

\* C10: one button wired to one counter, buttons [{0}] and joltages [v],
\* results in v.
C10_SingleButton ==
  (Done /\ buttons = <<{0}>> /\ NumCounters = 1) => Get(result) = joltages[1]

\* C10's case: the spec's machine, buttons [{0}] and joltages [7].
C10_Witness == Done /\ buttons = <<{0}>> /\ joltages = <<7>>

TwinMachine == buttons = <<{0}, {0}>> /\ NumCounters = 1

\* C11: for buttons [{0}, {0}] and joltages [v] the result is v; no
\* accepted candidate has a total below v, and the subset of both buttons,
\* which the free-variable branch handles with d = 1, has the candidate v.
C11_TwinButtons ==
  TwinMachine =>
    /\ \A t \in seen : t >= joltages[1]
    /\ last.subset = <<0, 1>> => last.candidate = Some(joltages[1])
    /\ Done => Get(result) = joltages[1]

\* C11's case: the spec's machine, joltages [4], after the search, whose
\* last subset was the one of both buttons.
C11_Witness ==
  Done /\ TwinMachine /\ joltages = <<4>> /\ last.subset = <<0, 1>>

RECURSIVE Binomial(_, _)
Binomial(n, k) ==
  IF k = 0 THEN 1 ELSE IF k > n THEN 0
  ELSE Binomial(n - 1, k - 1) + Binomial(n - 1, k)

LexLess(a, b) ==
  \E p \in 1..Len(a) : a[p] < b[p] /\ \A q \in 1..(p - 1) : a[q] = b[q]

\* C12: for 1 <= k <= n, combinations(n, k) holds every k-element subset of
\* 0..n-1 exactly once, each as a strictly increasing vector, the vectors
\* in ascending lexicographic order, C(n, k) of them; for k > n it is
\* empty.  Checked for the n = num_buttons and the k = size of the search.
C12_Combinations ==
  pc = "search" =>
    LET n == NumButtons
        k == size
        combos == combinations(n, k)
    IN  IF k > n THEN combos = <<>>
        ELSE /\ Len(combos) = Binomial(n, k)
             /\ \A i \in 1..Len(combos) :
                  /\ Len(combos[i]) = k
                  /\ \A p \in 1..k : combos[i][p] \in 0..(n - 1)
                  /\ \A p \in 1..(k - 1) : combos[i][p] < combos[i][p + 1]
             /\ \A i \in 1..(Len(combos) - 1) : LexLess(combos[i], combos[i + 1])
             /\ \A S \in SUBSET (0..(n - 1)) :
                  Cardinality(S) = k =>
                    Cardinality({i \in 1..Len(combos) :
                                   {combos[i][p] : p \in 1..k} = S}) = 1

\* C12's case: the search takes the 2-element subsets of four buttons, the
\* third of the six being evaluated next.
C12_Witness ==
  /\ pc = "search" /\ NumButtons = 4 /\ size = 2 /\ idx = 3
  /\ last.subset = combinations(4, 2)[2]

\* C12's other case: k > n, which the search reaches after its last size.
C12_WitnessEmpty ==
  pc = "search" /\ size > NumButtons /\ combinations(NumButtons, size) = <<>>

\* The increasing vector of the elements of a set of indices.
Ascending(S) ==
  CHOOSE f \in [1..Cardinality(S) -> S] :
    \A p \in 1..(Cardinality(S) - 1) : f[p] < f[p + 1]

\* Every subset of the buttons with lo <= size <= hi, as increasing vectors.
SubsetsOfSizes(lo, hi) ==
  {Ascending(S) : S \in {T \in SUBSET (0..(NumButtons - 1)) :
                           lo <= Cardinality(T) /\ Cardinality(T) <= hi}}

Searching == NumButtons >= 1 /\ NumCounters >= 1 /\ pc # "start"

AcceptedAlone(subset) ==
  LET full_a == BuildFullA(buttons, NumCounters)
      max_val == MaxSeq(joltages)
      n == Len(subset)
      cap == IF max_val < FvCap THEN max_val ELSE FvCap
      ok(r) == /\ r # None
               /\ verify_solution(joltages, buttons, subset, Get(r).solution)
      rec(r) == [total |-> Get(r).total, presses |-> Get(r).solution]
  IN  IF n = NumCounters + 1
        THEN {rec(solve_one_free_var(full_a, joltages, subset, f, max_val)) :
                f \in {g \in 0..(n - 1) :
                         ok(solve_one_free_var(full_a, joltages, subset, g, max_val))}}
      ELSE IF n = NumCounters + 2
        THEN {rec(Trial2(full_a, joltages, subset, t[1], t[2], t[3], max_val)) :
                t \in {u \in (0..(n - 1)) \X (0..(n - 1)) \X (0..cap) :
                         /\ u[1] < u[2]
                         /\ ok(Trial2(full_a, joltages, subset,
                                      u[1], u[2], u[3], max_val))}}
      ELSE {}

\* C14: a subset that yields no candidate leaves the running minimum and
\* the accepted totals as they were and the search goes on with the next
\* subset; inside a subset of the free-variable branch a failing trial
\* does not keep any other trial from being accepted.
C14_FailureLocal ==
  [][(pc = "search" /\ evals' = evals + 1) =>
       /\ last'.candidate = None =>
            /\ best' = best
            /\ seen' = seen
            /\ pc' = "search"
            /\ <<size', idx'>> # <<size, idx>>
            /\ visited' = visited \cup {last'.subset}
       /\ AcceptedAlone(last'.subset) \subseteq last'.acc]_vars

\* C14's case: a subset has just failed after an earlier one was accepted,
\* and subsets remain to be evaluated.
C14_Witness ==
  /\ pc = "search"
  /\ last # NoSubset /\ last.candidate = None
  /\ best < I32Max
  /\ size <= NumButtons

\* C14's other case: a subset with one free variable in which a trial
\* failed and another one was accepted.
C14_WitnessTrial ==
  /\ Len(last.subset) = NumCounters + 1
  /\ last.acc # {}
  /\ \E f \in 0..(Len(last.subset) - 1) :
       solve_one_free_var(BuildFullA(buttons, NumCounters), joltages,
                          last.subset, f, MaxSeq(joltages)) = None

\* The sequential search as a function of the machine: the fold of the
\* subsets in the order of the loops, from position (s, i) with best b.
RECURSIVE SequentialFold(_, _, _)
SequentialFold(s, i, b) ==
  IF s > max_subset_size(buttons, joltages) THEN b
  ELSE LET combos == combinations(NumButtons, s)
           c == BestOf(SubsetCandidates(buttons, joltages, combos[i]))
       IN  IF i < Len(combos) THEN SequentialFold(s, i + 1, FoldBest(b, c))
           ELSE SequentialFold(s + 1, 1, FoldBest(b, c))

SequentialResult ==
  IF NumButtons = 0 \/ NumCounters = 0 THEN 0
  ELSE LET b == SequentialFold(1, 1, I32Max)
       IN  IF b = I32Max THEN -1 ELSE b

\* The sequential search ends with SequentialResult.
SequentialAgrees == Done => Get(result) = SequentialResult

\* C15: with the subsets evaluated in any order, each once, and their
\* candidates reduced with a minimum, the result is that of the sequential
\* search; at any moment best is the minimum of what was accepted so far.
C15_OrderIndependent ==
  /\ best = IF seen = {} THEN I32Max ELSE MinSet(seen)
  /\ Done => Get(result) = SequentialResult

\* C15's case: a finished search whose last subset was the first one of
\* two buttons, which the sequential search takes before four others, and
\* whose candidate is not the minimum.
C15_Witness ==
  /\ Done /\ NumButtons = Len(AnyOrderButtons)
  /\ last.subset = <<0, 1>>
  /\ Cardinality(seen) >= 2
  /\ last.candidate # None /\ Get(last.candidate) > Get(result)

\* A dependency among at most four columns of a 0/1 matrix can be taken
\* with integer coefficients of absolute value at most MaxKernelCoef.
MaxKernelCoef == 2

\* The subset's columns (the buttons as 0/1 vectors) are linearly independent.
IndependentColumns(subset) ==
  \A c \in [1..Len(subset) -> (-MaxKernelCoef)..MaxKernelCoef] :
    (\E p \in 1..Len(subset) : c[p] # 0) =>
      \E k \in 0..(NumCounters - 1) : Pressed(k, subset, c) # 0

\* The non-negative integer solutions of A_subset * x = joltages (a press
\* count above the largest target overshoots unless the button is empty).
SubsetSolutions(subset) ==
  {x \in [1..Len(subset) -> 0..MaxSeq(joltages)] :
     \A k \in 0..(NumCounters - 1) : Pressed(k, subset, x) = joltages[k + 1]}

\* C16: in the direct branch a subset with independent columns has a
\* candidate exactly when A_subset * x = joltages has a non-negative
\* integer solution x, and the candidate is sum(x); any subset of the
\* branch that has a candidate has one that solves the system, so an
\* inconsistent system has none.
C16_DirectBranch ==
  (Searching /\ last # NoSubset /\ Len(last.subset) <= NumCounters) =>
    /\ \A a \in last.acc : a.presses \in SubsetSolutions(last.subset)
    /\ IndependentColumns(last.subset) =>
         /\ (last.acc # {}) <=> (SubsetSolutions(last.subset) # {})
         /\ \A x \in SubsetSolutions(last.subset) :
              last.candidate = Some(SumSeq(x))

\* C16's case: three independent columns over four counters whose system
\* has a solution with every button pressed.
C16_Witness ==
  /\ Len(last.subset) = 3 /\ NumCounters = 4
  /\ IndependentColumns(last.subset)
  /\ \E a \in last.acc : \A p \in 1..3 : a.presses[p] > 0

\* C16's other cases: independent columns with an inconsistent system, and
\* independent columns whose solution is not a non-negative integer vector.
C16_WitnessRejected ==
  /\ Searching /\ last # NoSubset /\ Len(last.subset) <= NumCounters
  /\ IndependentColumns(last.subset)
  /\ last.acc = {}

\* The subset without position f (0-based): the basic columns when the
\* free variable is the one at f.
WithoutPosition(subset, f) ==
  [q \in 1..(Len(subset) - 1) |-> subset[IF q - 1 < f THEN q ELSE q + 1]]

\* solve_one_free_var on the last subset with the free variable at f.
LastTrial(f) ==
  solve_one_free_var(BuildFullA(buttons, NumCounters), joltages, last.subset,
                     f, MaxSeq(joltages))

OneFree == Searching /\ Len(last.subset) = NumCounters + 1

\* C17: for d = 1 and a free position whose basic matrix is non-singular,
\* solve_one_free_var returns the minimum total over the values t of the
\* free variable in 0..max_val for which x_basic(t) is a non-negative
\* integer vector (with a non-singular basic matrix these (x_basic(t), t)
\* are the non-negative integer solutions of the subset's system), and no
\* candidate only when there is no such t.
C17_OneFreeMinimum ==
  OneFree =>
    \A f \in 0..(Len(last.subset) - 1) :
      IndependentColumns(WithoutPosition(last.subset, f)) =>
        LET sols == SubsetSolutions(last.subset)
        IN  /\ (LastTrial(f) = None) <=> (sols = {})
            /\ LastTrial(f) # None =>
                 Get(LastTrial(f)).total = MinSet({SumSeq(x) : x \in sols})

\* The basic matrix of the last subset with the free variable at f, the
\* free column, and the two solves x0 and coef (None if singular).
BasicMatrix(f) ==
  LET basic == WithoutPosition(last.subset, f)
  IN  Mat([i \in 1..NumCounters |-> [j \in 1..NumCounters |->
             IF (i - 1) \in buttons[basic[j] + 1] THEN 1 ELSE 0]])

FreeColumn(f) ==
  Vec([i \in 1..NumCounters |->
         IF (i - 1) \in buttons[last.subset[f + 1] + 1] THEN 1 ELSE 0])

X0(f) == LuSolve(BasicMatrix(f), joltages)
Coef(f) == LuSolve(BasicMatrix(f), FreeColumn(f))

RMaxSet(S) == CHOOSE x \in S : \A y \in S : ~RLt(x, y)
RMinSet(S) == CHOOSE x \in S : \A y \in S : ~RLt(y, x)

\* [t_min, t_max]: [0, max_val] tightened by x0[i] - coef[i] * t >= 0.
TMin(f) ==
  RMaxSet({FromInt(0)} \cup
          {RDiv(Get(X0(f))[i], Get(Coef(f))[i]) :
             i \in {j \in 1..NumCounters : Get(Coef(f))[j][1] < 0}})

TMax(f) ==
  RMinSet({FromInt(MaxSeq(joltages))} \cup
          {RDiv(Get(X0(f))[i], Get(Coef(f))[i]) :
             i \in {j \in 1..NumCounters : Get(Coef(f))[j][1] > 0}})

Positions == 0..(Len(last.subset) - 1)

\* C18: a candidate of solve_one_free_var has its free variable at an
\* integer t with ceil(t_min) <= t <= floor(t_max); there is no candidate
\* when no integer lies in [t_min, t_max] (the clamped t is then below
\* t_min or negative) nor when a basic variable has coef = 0 and x0 < 0.
C18_FreeValueInRange ==
  OneFree =>
    \A f \in Positions :
      X0(f) # None =>
        /\ LastTrial(f) # None =>
             Get(LastTrial(f)).solution[f + 1] \in Ceil(TMin(f))..Floor(TMax(f))
        /\ Ceil(TMin(f)) > Floor(TMax(f)) => LastTrial(f) = None
        /\ (\E i \in 1..NumCounters :
              Get(Coef(f))[i][1] = 0 /\ Get(X0(f))[i][1] < 0)
             => LastTrial(f) = None

\* C18's case: t_min < t_max with no integer between them.
C18_Witness ==
  /\ OneFree
  /\ \E f \in Positions :
       /\ X0(f) # None
       /\ RLt(TMin(f), TMax(f))
       /\ Ceil(TMin(f)) > Floor(TMax(f))

\* C18's other cases: a candidate with the free variable strictly inside
\* the integer range, and a basic variable with coef = 0 and x0 < 0.
C18_WitnessInside ==
  /\ OneFree
  /\ \E f \in Positions :
       /\ LastTrial(f) # None
       /\ Ceil(TMin(f)) < Floor(TMax(f))

C18_WitnessInfeasibleRow ==
  /\ OneFree
  /\ \E f \in Positions :
       /\ X0(f) # None
       /\ \E i \in 1..NumCounters :
            Get(Coef(f))[i][1] = 0 /\ Get(X0(f))[i][1] < 0

\* slope = 1 - sum(coef) of total(t) = sum(x0) + slope * t.
Slope(f) == RSub(FromInt(1), RSumSeq(Get(Coef(f))))

\* The integer the claim names for the sign of the slope.
SlopeChoice(f) ==
  IF Slope(f)[1] < 0 THEN Floor(TMax(f)) ELSE Ceil(TMin(f))

\* C19: with [ceil(t_min), floor(t_max)] not empty, the value chosen for
\* the free variable is its smallest integer when the slope is positive or
\* zero and its largest when the slope is negative; a candidate returned
\* has that value at the free position.
C19_SlopeRule ==
  OneFree =>
    \A f \in Positions :
      (X0(f) # None /\ Ceil(TMin(f)) <= Floor(TMax(f))) =>
        /\ OptT(Slope(f), TMin(f), TMax(f)) = SlopeChoice(f)
        /\ LastTrial(f) # None =>
             Get(LastTrial(f)).solution[f + 1] = SlopeChoice(f)

\* C19's case: in one subset a candidate with negative slope and one with
\* positive slope, each with more than one integer to choose from.
C19_Witness ==
  /\ OneFree
  /\ \E f, g \in Positions :
       /\ LastTrial(f) # None /\ LastTrial(g) # None
       /\ Slope(f)[1] < 0 /\ Slope(g)[1] > 0
       /\ Ceil(TMin(f)) < Floor(TMax(f))
       /\ Ceil(TMin(g)) < Floor(TMax(g))

\* C19's other case: a candidate with slope zero and more than one integer
\* to choose from.
C19_WitnessZero ==
  /\ OneFree
  /\ \E f \in Positions :
       /\ LastTrial(f) # None
       /\ Slope(f)[1] = 0
       /\ Ceil(TMin(f)) < Floor(TMax(f))

TwoFree == Searching /\ Len(last.subset) = NumCounters + 2

\* The vector s with v put in at position f (0-based).
InsertAt(s, f, v) == SubSeq(s, 1, f) \o <<v>> \o SubSeq(s, f + 1, Len(s))

\* The trial values of the first free variable: 0..min(max_joltage, 100).
TrialValues ==
  0..(IF MaxSeq(joltages) < 100 THEN MaxSeq(joltages) ELSE 100)

\* The d = 1 procedure as C20 states it for positions f1 < f2 of the last
\* subset and the value fv1: on the subset without position f1, target
\* b - fv1 * A[:, subset[f1]], free column the button subset[f2].
SubTrial(f1, f2, fv1) ==
  LET sub_subset == WithoutPosition(last.subset, f1)
      target == [k \in 1..NumCounters |->
                   joltages[k] - (IF (k - 1) \in buttons[last.subset[f1 + 1] + 1]
                                    THEN fv1 ELSE 0)]
      free == CHOOSE p \in 0..(Len(sub_subset) - 1) :
                sub_subset[p + 1] = last.subset[f2 + 1]
  IN  solve_one_free_var(BuildFullA(buttons, NumCounters), target, sub_subset,
                         free, MaxSeq(joltages))

\* What C20 has accepted for one trial: nothing, or the full vector with
\* its sum, provided the full vector reaches every target.
TrialAccepted(f1, f2, fv1) ==
  LET sub == SubTrial(f1, f2, fv1)
      full == InsertAt(Get(sub).solution, f1, fv1)
  IN  IF sub = None THEN {}
      ELSE IF \E k \in 0..(NumCounters - 1) :
                Pressed(k, last.subset, full) # joltages[k + 1] THEN {}
      ELSE {[total |-> fv1 + Get(sub).total, presses |-> full]}

\* C20: for d = 2 the accepted candidates are those of the trials
\* (free_idx1 < free_idx2, fv1 in 0..min(max_joltage, 100)), each the d = 1
\* procedure on the subset without free_idx1 with the adjusted target and
\* the button of free_idx2 as free column; the total fv1 + sub_total is the
\* sum of the full vector, which is the vector verified.
C20_TwoFreeTrials ==
  TwoFree =>
    /\ last.acc =
         UNION {TrialAccepted(p[1], p[2], fv1) :
                  p \in {q \in Positions \X Positions : q[1] < q[2]},
                  fv1 \in TrialValues}
    /\ \A a \in last.acc : a.total = SumSeq(a.presses)

\* C20's case: a target above 100, so that the cap of 100 is the last
\* trial value, with the candidate of that last value accepted (the empty
\* button pressed 100 times).
C20_Witness ==
  /\ TwoFree
  /\ joltages[1] > 100
  /\ \E a \in last.acc : a.presses[2] = 100 /\ a.total = joltages[1] + 100

\* C21: the running minimum changes only in the step that completes a
\* subset's evaluation, never increases, and in every state is the minimum
\* of the totals accepted so far, or i32::MAX when there is none yet.
C21_RunningMinimum ==
  /\ [](best = IF seen = {} THEN I32Max ELSE MinSet(seen))
  /\ [][/\ best' <= best
        /\ best' # best => (pc = "search" /\ evals' = evals + 1)]_vars

\* C21's case: a subset has just had a candidate accepted that is above the
\* running minimum, which an earlier subset had lowered.
C21_Witness ==
  /\ pc = "search"
  /\ last.candidate # None
  /\ best < Get(last.candidate)
  /\ Cardinality(seen) >= 2

\* The sum of C(num_buttons, s) for s from 1 to hi.
RECURSIVE SumBinomials(_)
SumBinomials(hi) ==
  IF hi < 1 THEN 0 ELSE Binomial(NumButtons, hi) + SumBinomials(hi - 1)

SubsetCount ==
  SumBinomials(IF NumCounters + 2 < NumButtons THEN NumCounters + 2
               ELSE NumButtons)

\* min(max_joltage, 100) + 1
TrialValueCount ==
  (IF MaxSeq(joltages) < 100 THEN MaxSeq(joltages) ELSE 100) + 1

\* C22 as stated, its count of subsets: for every machine the number of
\* subsets evaluated is the sum of C(num_buttons, s) for s from 1 to
\* min(num_counters + 2, num_buttons).
C22_CountEveryMachine == Done => evals = SubsetCount

\* C22 as amended: the search terminates; with at least one button and one
\* counter the number of subsets evaluated is the sum of C(num_buttons, s)
\* for s from 1 to min(num_counters + 2, num_buttons), and without buttons
\* or without counters it is 0; a subset with d = 1 has one trial per
\* position, one with d = 2 has min(max_joltage, 100) + 1 trial values for
\* each of its pairs of positions.
C22_Terminates ==
  /\ <>Done
  /\ [](Done => evals = IF NumButtons = 0 \/ NumCounters = 0 THEN 0
                        ELSE SubsetCount)
  /\ [](OneFree => Cardinality(FreeChoices(Len(last.subset))) = NumCounters + 1)
  /\ [](TwoFree =>
          LET n == Len(last.subset)
              trials == Trials2(n, MaxSeq(joltages))
          IN  /\ \A t \in trials : t[1] \in 0..(n - 1) /\ t[2] \in 0..(n - 1)
              /\ \A f1 \in 0..(n - 1) : \A f2 \in (f1 + 1)..(n - 1) :
                   Cardinality({t \in trials : t[1] = f1 /\ t[2] = f2})
                     = TrialValueCount)

\* C22's case: a finished search over more buttons than num_counters + 2,
\* whose last subset had two free variables.
C22_Witness ==
  /\ Done /\ NumCounters = 1 /\ NumButtons = MaxButtonsNarrow
  /\ evals = SubsetCount
  /\ evals < SumBinomials(NumButtons)
  /\ TwoFree


\* C23: no step changes the machine's buttons or joltages, hence neither
\* the incidence matrix A nor the target vector b derived from them; every
\* candidate a subset's evaluation accepts reaches the targets of that one
\* machine, and for d = 2 the trial of every value fv1 is made against the
\* unadjusted b, whatever trials and subsets came before it.
C23_SameMatrixAndTarget ==
  /\ [][/\ buttons' = buttons
        /\ joltages' = joltages
        /\ BuildFullA(buttons', Len(joltages')) = BuildFullA(buttons, Len(joltages))]_vars
  /\ [](Searching =>
          \A a \in last.acc : \A k \in 0..(NumCounters - 1) :
            Pressed(k, last.subset, a.presses) = joltages[k + 1])
  /\ [](TwoFree =>
          \A p \in {q \in Positions \X Positions : q[1] < q[2]} :
            \A fv1 \in TrialValues : TrialAccepted(p[1], p[2], fv1) \subseteq last.acc)

\* C23's case: a d = 2 subset evaluated after other subsets, with a
\* candidate accepted whose first free variable had the trial value 2 or
\* more, hence after the trials of the smaller values.
C23_Witness ==
  /\ TwoFree
  /\ evals >= 2
  /\ \E p \in {q \in Positions \X Positions : q[1] < q[2]} :
       \E fv1 \in TrialValues :
         /\ fv1 >= 2
         /\ TrialAccepted(p[1], p[2], fv1) # {}
         /\ TrialAccepted(p[1], p[2], fv1) \subseteq last.acc

\* The degrees of freedom of a subset: its size minus num_counters.
NumFree(subset) == Len(subset) - NumCounters

\* C24: a subset that reaches solve_with_free_vars (more buttons than
\* counters) has num_free 1 or 2; no subset of more than num_counters + 2
\* buttons is ever evaluated, and when such subsets exist the function
\* still returns -1 or a total, nothing else; the guard lets every call
\* through, so what a subset with num_free 1 or 2 contributes is what the
\* loops of that num_free accept.
C24_OneOrTwoFree ==
  /\ \A s \in visited : NumFree(s) <= 2
  /\ (Searching /\ last # NoSubset /\ NumFree(last.subset) >= 1) =>
       /\ NumFree(last.subset) \in {1, 2}
       /\ Len(last.subset) - NumFree(last.subset) = Len(joltages)
       /\ last.acc =
            LET full_a == BuildFullA(buttons, NumCounters)
            IN  IF NumFree(last.subset) = 1
                  THEN FreeCandidates1(full_a, joltages, last.subset,
                                       MaxSeq(joltages), joltages, buttons)
                  ELSE FreeCandidates2(full_a, joltages, last.subset,
                                       MaxSeq(joltages), joltages, buttons)
  /\ (Done /\ Searching /\ NumButtons >= NumCounters + 3) =>
       (Get(result) = -1 \/ Get(result) \in seen)

\* C24's case: a finished machine with at least num_counters + 3 buttons,
\* so that subsets with three free variables exist, whose search went
\* through subsets with one and with two free variables and found a total.
C24_Witness ==
  /\ Done
  /\ NumButtons >= NumCounters + 3
  /\ NumCounters >= 1
  /\ \E s \in visited : NumFree(s) = 1
  /\ \E s \in visited : NumFree(s) = 2
  /\ Get(result) \in seen

\* The press vectors over all buttons, no button pressed more than r times,
\* that reach every target.
Achieving(r) ==
  {x \in [1..NumButtons -> 0..r] :
     \A c \in 0..(NumCounters - 1) :
       Pressed(c, [j \in 1..NumButtons |-> j - 1], x) = joltages[c + 1]}

\* C25: a returned value r >= 0 is the total of some non-negative integer
\* press vector over the machine's buttons that drives every counter
\* exactly to its target, machines without buttons or without counters
\* included.
C25_Achievable ==
  (Done /\ Get(result) >= 0) => \E x \in Achieving(Get(result)) : SumSeq(x) = Get(result)

\* The same for the machines that enter the loops (at least one button):
\* there the returned total is achievable.
C25_AchievableWithButtons ==
  (Done /\ Get(result) >= 0 /\ NumButtons >= 1) =>
    \E x \in Achieving(Get(result)) : SumSeq(x) = Get(result)

\* C30: for every machine, subset and press vector the inline check of the
\* direct branch (row[btn_idx] > 0.5) and verify_solution (the counter
\* index in the button's list) give the same verdict.
C30_ChecksAgree ==
  verdict # <<>> => (verdict.valid <=> verdict.verified)

\* C30's case: a vector over two buttons that both checks accept on a
\* machine of two counters, one of the buttons listing an index beyond the
\* counters, and both buttons pressed.
C30_Witness ==
  /\ verdict # <<>>
  /\ verdict.valid /\ verdict.verified
  /\ Len(joltages) = 2
  /\ Len(verdict.subset) = 2
  /\ \A p \in 1..2 : verdict.solution[p] >= 1
  /\ \E p \in 1..2 : \E c \in buttons[verdict.subset[p] + 1] : c >= Len(joltages)

\* C30 also where the checks refuse: a vector that reaches counter 0 and
\* misses another counter.
C30_WitnessRefused ==
  /\ verdict # <<>>
  /\ ~verdict.valid /\ ~verdict.verified
  /\ Len(joltages) = 2
  /\ Pressed(0, verdict.subset, verdict.solution) = joltages[1]

\* What pressing once each button of the set S does to the lights, all off
\* at first: light i is on when the buttons of S name it an odd number of
\* times.
Toggled(S) ==
  [i \in 1..Len(light_target) |->
     Cardinality({<<j, p>> \in UNION {{<<j, p>> : p \in 1..Len(buttons[j + 1])} : j \in S} :
                    buttons[j + 1][p] = i - 1}) % 2 = 1]

\* The smallest number of distinct buttons that produce the target, from k
\* buttons on, or -1.
RECURSIVE FewestFrom(_)
FewestFrom(k) ==
  IF k > NumButtons THEN -1
  ELSE IF \E S \in KSubsets(NumButtons, k) : Toggled(S) = light_target THEN k
  ELSE FewestFrom(k + 1)

\* C26: find_min_presses returns the smallest number of distinct buttons
\* whose combined toggles turn the all-off state into the target, indices
\* beyond the lights passed over; 0 when the target is all off, -1 when no
\* set of buttons produces the target.
C26_FewestButtons ==
  Done =>
    /\ Get(result) = FewestFrom(0)
    /\ (\A i \in 1..Len(light_target) : ~light_target[i]) => Get(result) = 0

\* The same for the machines whose masks fit the 32 bits that count_ones()
\* looks at.
C26_FewestButtonsWithin32 ==
  (Done /\ NumButtons <= U32Bits) =>
    /\ Get(result) = FewestFrom(0)
    /\ (\A i \in 1..Len(light_target) : ~light_target[i]) => Get(result) = 0

\* Where a dial at start points after k single clicks in the direction.
DialAfter(start, direction, k) ==
  (IF direction = "L" THEN start - k ELSE start + k) % DialSize

\* The number of the clicks 1..distance after which the dial points at 0,
\* the dial moved one click at a time.  A full turn of 100 clicks comes
\* back to where it began and points at 0 after exactly one of its clicks,
\* so the full turns of a long rotation are counted one each.
ClicksAtZero(start, direction, distance) ==
  IF distance <= MaxDistance
    THEN Cardinality({k \in 1..distance : DialAfter(start, direction, k) = 0})
    ELSE (distance \div DialSize)
         + Cardinality({k \in 1..(distance % DialSize) :
                          DialAfter(start, direction, k) = 0})

\* C27: for every start in 0..99, direction and distance >= 0 the value of
\* count_zeros_crossed is the number of single clicks after which the dial
\* points at 0, and the position kept stays within 0..99.
C27_CountsEveryClick ==
  /\ position \in 0..(DialSize - 1)
  /\ rotation # <<>> =>
       rotation.crossed = Some(ClicksAtZero(rotation.start, rotation.direction,
                                            rotation.distance))

\* The same for the rotations whose sums stay within i32.
C27_CountsEveryClickInRange ==
  /\ position \in 0..(DialSize - 1)
  /\ (rotation # <<>> /\ ~RotationOverflows(rotation.start, rotation.direction,
                                              rotation.distance)) =>
       rotation.crossed = Some(ClicksAtZero(rotation.start, rotation.direction,
                                            rotation.distance))

\* The positions of the rolls of a grid.
Rolls(g) ==
  {p \in UNION {{<<r, c>> : c \in 0..(Len(g[r + 1]) - 1)} : r \in 0..(Len(g) - 1)} :
     g[p[1] + 1][p[2] + 1] = "@"}

\* The rolls of a grid next to the roll p, diagonals included.
Neighbouring(g, p) ==
  {q \in Rolls(g) : /\ q # p
                    /\ q[1] - p[1] \in -1..1
                    /\ q[2] - p[2] \in -1..1}

\* The rolls of a grid with fewer than 4 neighbouring rolls.
Loose(g) == {p \in Rolls(g) : Cardinality(Neighbouring(g, p)) < 4}

\* C28: solve_part2 terminates; a round removes exactly the rolls that had
\* fewer than 4 neighbouring rolls in the grid at the start of the round,
\* at least one, and adds their number to the total; the loop stops in the
\* round, and only in the round, in which no roll has fewer than 4
\* neighbouring rolls; the total returned is the number of rolls read
\* minus the number of rolls left.
C28_RoundsToFixpoint ==
  /\ <>Done
  /\ [][IF Loose(grid) = {}
          THEN pc' = "done" /\ grid' = grid
          ELSE /\ pc' = pc
               /\ Rolls(grid') = Rolls(grid) \ Loose(grid)
               /\ total_removed' = total_removed + Cardinality(Loose(grid))]_vars
  /\ [](Done => /\ Loose(grid) = {}
                /\ Get(result) = Cardinality(Rolls(initial_grid))
                                   - Cardinality(Rolls(grid)))

\* C28's case: the loop finished with rolls removed and rolls left, every
\* roll left with 4 neighbouring rolls or more.
C28_Witness ==
  /\ Done
  /\ Get(result) > 0
  /\ Rolls(grid) # {}

\* C28 over several rounds: a finished grid with more rolls removed than
\* were loose at first, and more than one round after the first.
C28_WitnessRounds ==
  /\ Done
  /\ Get(result) > Cardinality(Loose(initial_grid))
  /\ \E p \in Rolls(initial_grid) : Cardinality(Neighbouring(initial_grid, p)) = 8

\* The elements of the UnionFind.
Elements == 0..(Len(parent) - 1)

\* Where k steps along the parent pointers lead from x.
RECURSIVE Ancestor(_, _, _)
Ancestor(par, x, k) == IF k = 0 THEN x ELSE Ancestor(par, par[x + 1], k - 1)

\* The elements that the pairs given to union connect with x: what is
\* reached from x in at most k steps along the pairs.
RECURSIVE Reached(_, _, _)
Reached(pairs, x, k) ==
  IF k = 0 THEN {x}
  ELSE LET near == Reached(pairs, x, k - 1)
       IN  near \cup {z \in Elements : \E w \in near : {w, z} \in pairs}

Connected(pairs, x, y) == y \in Reached(pairs, x, Len(parent))

\* C29: the parent pointers form a forest whose only cycles are the
\* self-loops of the roots; two elements have the same root exactly when
\* the unions made so far connect them; find returns the root; union
\* returns true exactly when its two elements were not connected before
\* the call; and no call changes which elements share a root other than by
\* joining the sets of the two elements of a union.
C29_ForestOfSets ==
  /\ [](\A x \in Elements :
          LET r == Ancestor(parent, x, Len(parent))
          IN  /\ parent[r + 1] = r
              /\ \A k \in 1..Len(parent) :
                   Ancestor(parent, x, k) = x => parent[x + 1] = x)
  /\ [](\A x \in Elements : \A y \in Elements :
          (find(parent, x).root = find(parent, y).root) <=> Connected(unions, x, y))
  /\ [][/\ returned'.op = "find" =>
             /\ returned'.value = Ancestor(parent, returned'.x, Len(parent))
             /\ \A x \in Elements : \A y \in Elements :
                  (find(parent', x).root = find(parent', y).root)
                    <=> (find(parent, x).root = find(parent, y).root)
        /\ returned'.op = "union" =>
             (returned'.value <=> ~Connected(unions, returned'.x, returned'.y))]_vars

\* C29's case: a find that compressed a path (the element's parent was not
\* the root before the call and is the root after it) in a set that three
\* unions built.
C29_Witness ==
  /\ returned # <<>>
  /\ returned.op = "find"
  /\ returned.was # returned.value
  /\ returned.was # returned.x
  /\ parent[returned.x + 1] = returned.value
  /\ \E x \in Elements : rank[x + 1] = 2
====
